---- MODULE Spec2Model ----
(***************************************************************************)
(* Model of examples/pipelines/providers/aws_bedrock_claude_pipeline.py:   *)
(* the Pipeline object (catalog refresh), one call of Pipeline.pipe, and   *)
(* the generator Pipeline.stream_response that turns the provider's event  *)
(* stream into text fragments with reasoning markers.                      *)
(***************************************************************************)
EXTENDS Integers, Sequences, FiniteSets, TLC

VARIABLES
    \* ---- the arguments of one call of pipe (fixed once drawn)
    model_id,               \* pipe's model_id argument
    body,                   \* pipe's body argument (request options)
    messages,               \* pipe's messages after pop_system_message
    \* ---- one call of pipe
    pipe_pc,                \* "ready" before the call, "returned" after it
    result,                 \* what pipe returned
    payload,                \* the payload pipe built (NoPayload before that)
    resolved,               \* ordinals of the image items passed to process_image
    fetched,                \* ordinals of the image items fetched with requests.get
    invoked,                \* calls made on bedrock_runtime: <<[api, payload], ...>>
    escaped,                \* the exception that crossed pipe or the generator it
                            \* returned and reached the caller; "" for none
    \* ---- the generator stream_response returned
    gen_pc,                 \* "none", "created", "iterating", "done", "raised"
    in_resasoning_context,  \* the local flag of stream_response
    out,                    \* fragments yielded so far
    src,                    \* src[k]: index of the event that yielded out[k]
    seen,                   \* events received from streaming_response["stream"]
    flags,                  \* flags[i]: the flag after event i
    \* ---- the Pipeline object
    valves,                 \* self.valves (the configuration)
    bedrock,                \* self.bedrock: Unset or the configuration it was made from
    bedrock_runtime,        \* self.bedrock_runtime: likewise
    pipelines,              \* self.pipelines: Unset or the model list
    catalog,                \* the catalog's answer to the latest refresh
    \* ---- generators of stream_response alive on the one Pipeline object
    sessions                \* sessions[id]: the frame of generator id

reqVars == <<model_id, body, messages>>
pipeVars == <<pipe_pc, result, payload, resolved, fetched, invoked, escaped>>
genVars == <<gen_pc, in_resasoning_context, out, src, seen, flags>>
objVars == <<valves, bedrock, bedrock_runtime, pipelines, catalog>>
vars == <<reqVars, pipeVars, genVars, objVars, sessions>>

\* ---------------------------------------------------------------- bounds
MaxEvents == 4          \* events one streaming session receives

\* ------------------------------------------------------ stream_response
OpenMarker == "<think>"
CloseMarker == "\n </think> \n\n"

\* payload texts a delta may carry; none of them is a marker
Payloads == {"", "a", "b", "c"}

\* A chunk of streaming_response["stream"], by the keys the code looks at.
Chunk(keys, cbdKeys, deltaKeys, rcKeys, rcText, text) ==
    [keys |-> keys, cbdKeys |-> cbdKeys, deltaKeys |-> deltaKeys,
     rcKeys |-> rcKeys, rcText |-> rcText, text |-> text]

OtherEvent == Chunk({"messageStart"}, {}, {}, {}, "", "")
BlockStop == Chunk({"contentBlockStop"}, {}, {}, {}, "", "")
NoDeltaEvent == Chunk({"contentBlockDelta"}, {"contentBlockIndex"}, {}, {}, "", "")
ToolUseDelta == Chunk({"contentBlockDelta"}, {"delta"}, {"toolUse"}, {}, "", "")
SignatureDelta ==
    Chunk({"contentBlockDelta"}, {"delta"}, {"reasoningContent"}, {"signature"}, "", "")
ReasoningDelta(p) ==
    Chunk({"contentBlockDelta"}, {"delta"}, {"reasoningContent"}, {"text"}, p, "")
TextDelta(p) == Chunk({"contentBlockDelta"}, {"delta"}, {"text"}, {}, "", p)

\* The provider's events form a tagged union: one top-level key, one delta kind.
Events ==
    {OtherEvent, BlockStop, NoDeltaEvent, ToolUseDelta, SignatureDelta}
    \cup {ReasoningDelta(p) : p \in Payloads}
    \cup {TextDelta(p) : p \in Payloads}

\* The body of the for loop of stream_response for one chunk: the flag after
\* it, the fragments it yields, in order, and whether a lookup raised (every
\* lookup of the code is guarded by a test for the key, so none does).
Yield(flag, frags) == [flag |-> flag, frags |-> frags, raised |-> FALSE]

\* stream_chunk without the test of line 260: every reasoning delta opens
stream_chunk_reopen(flag, chunk) ==
    IF flag /\ "contentBlockStop" \in chunk.keys
    THEN Yield(FALSE, <<CloseMarker>>)
    ELSE IF "contentBlockDelta" \in chunk.keys /\ "delta" \in chunk.cbdKeys
    THEN IF "reasoningContent" \in chunk.deltaKeys
         THEN Yield(TRUE,
                    <<OpenMarker>>
                    \o (IF "text" \in chunk.rcKeys THEN <<chunk.rcText>> ELSE <<>>))
         ELSE IF "text" \in chunk.deltaKeys
         THEN Yield(flag, <<chunk.text>>)
         ELSE Yield(flag, <<>>)
    ELSE Yield(flag, <<>>)

\* stream_chunk without the flag in the test of line 255: every stop closes
stream_chunk_close_any(flag, chunk) ==
    IF "contentBlockStop" \in chunk.keys
    THEN Yield(FALSE, <<CloseMarker>>)
    ELSE IF "contentBlockDelta" \in chunk.keys /\ "delta" \in chunk.cbdKeys
    THEN IF "reasoningContent" \in chunk.deltaKeys
         THEN Yield(TRUE,
                    (IF ~flag THEN <<OpenMarker>> ELSE <<>>)
                    \o (IF "text" \in chunk.rcKeys THEN <<chunk.rcText>> ELSE <<>>))
         ELSE IF "text" \in chunk.deltaKeys
         THEN Yield(flag, <<chunk.text>>)
         ELSE Yield(flag, <<>>)
    ELSE Yield(flag, <<>>)

\* stream_chunk without the test for "delta" of line 258: the lookup of
\* chunk["contentBlockDelta"]["delta"] raises KeyError when it is missing
stream_chunk_unguarded(flag, chunk) ==
    IF flag /\ "contentBlockStop" \in chunk.keys
    THEN Yield(FALSE, <<CloseMarker>>)
    ELSE IF "contentBlockDelta" \in chunk.keys
    THEN IF "delta" \notin chunk.cbdKeys
         THEN [flag |-> flag, frags |-> <<>>, raised |-> TRUE]
         ELSE IF "reasoningContent" \in chunk.deltaKeys
         THEN Yield(TRUE,
                    (IF ~flag THEN <<OpenMarker>> ELSE <<>>)
                    \o (IF "text" \in chunk.rcKeys THEN <<chunk.rcText>> ELSE <<>>))
         ELSE IF "text" \in chunk.deltaKeys
         THEN Yield(flag, <<chunk.text>>)
         ELSE Yield(flag, <<>>)
    ELSE Yield(flag, <<>>)

\* stream_chunk with the truth of the text tested in line 264, not its presence
stream_chunk_truthy(flag, chunk) ==
    IF flag /\ "contentBlockStop" \in chunk.keys
    THEN Yield(FALSE, <<CloseMarker>>)
    ELSE IF "contentBlockDelta" \in chunk.keys /\ "delta" \in chunk.cbdKeys
    THEN IF "reasoningContent" \in chunk.deltaKeys
         THEN Yield(TRUE,
                    (IF ~flag THEN <<OpenMarker>> ELSE <<>>)
                    \o (IF "text" \in chunk.rcKeys /\ chunk.rcText # ""
                        THEN <<chunk.rcText>> ELSE <<>>))
         ELSE IF "text" \in chunk.deltaKeys
         THEN Yield(flag, <<chunk.text>>)
         ELSE Yield(flag, <<>>)
    ELSE Yield(flag, <<>>)

stream_chunk(flag, chunk) ==
    IF flag /\ "contentBlockStop" \in chunk.keys
    THEN Yield(FALSE, <<CloseMarker>>)
    ELSE IF "contentBlockDelta" \in chunk.keys /\ "delta" \in chunk.cbdKeys
    THEN IF "reasoningContent" \in chunk.deltaKeys
         THEN Yield(TRUE,
                    (IF ~flag THEN <<OpenMarker>> ELSE <<>>)
                    \o (IF "text" \in chunk.rcKeys THEN <<chunk.rcText>> ELSE <<>>))
         ELSE IF "text" \in chunk.deltaKeys
         THEN Yield(flag, <<chunk.text>>)
         ELSE Yield(flag, <<>>)
    ELSE Yield(flag, <<>>)

\* Emit with the new fragments handed over ahead of the earlier ones
Emit_ahead(sofar, frags) == frags \o sofar

\* The generator yields: fragments are appended to what the consumer holds.
Emit(sofar, frags) == sofar \o frags

\* ------------------------------------------------------------ the request
Unset == "<unset>"

\* body.get(key, default): an option of the request is [set, v]
Absent(v) == [set |-> FALSE, v |-> v]
Given(v) == [set |-> TRUE, v |-> v]
BodyGet(option, default) == IF option.set THEN option.v ELSE default

\* d.get(key, default) on a dict modelled as a function of its keys
DictGet(d, key, default) == IF key \in DOMAIN d THEN d[key] ELSE default

\* d with key removed (del d[key])
DictDel(d, key) == [k \in DOMAIN d \ {key} |-> d[k]]

\* a reasoning_effort value: None, a string, an integer or a list
EffortNone == [kind |-> "None", s |-> "", n |-> 0]
EffortStr(s) == [kind |-> "str", s |-> s, n |-> 0]
EffortInt(n) == [kind |-> "int", s |-> "", n |-> n]
EffortList == [kind |-> "list", s |-> "", n |-> 0]

MAX_COMBINED_TOKENS == 64000
MAX_IMAGES == 20
DEFAULT_MAX_TOKENS == 4096
FALLBACK_MAX_TOKENS == 4096
DEFAULT_TOP_K == 200
\* temperatures and top_p are held in tenths: 5 is 0.5, 9 is 0.9, 10 is 1.0
DEFAULT_TEMPERATURE == 5
DEFAULT_TOP_P == 9
THINKING_TEMPERATURE == 10

LevelNames == {"none", "low", "medium", "high", "max"}

\* REASONING_EFFORT_BUDGET_TOKEN_MAP.get(name) for a key of the map; 0 stands
\* for None (both are falsy, and the code only tests truthiness)
LevelBudget(name) ==
    CASE name = "none" -> 0
      [] name = "low" -> 1024
      [] name = "medium" -> 4096
      [] name = "high" -> 16384
      [] name = "max" -> 32768

\* int(s) for the strings of the model: the value, or ValueError
NumericStrings == {"40000", "0"}
IntOfString(s) ==
    CASE s = "40000" -> 40000
      [] s = "0" -> 0

EffortStrings == {"none", "low", "max"} \cup NumericStrings \cup {"abc"}
EffortInts == {40000, 59904, 60000}
Efforts ==
    {EffortNone, EffortList}
    \cup {EffortStr(s) : s \in EffortStrings}
    \cup {EffortInt(n) : n \in EffortInts}

\* get_thinking_supported_models
get_thinking_supported_models == {"claude-3-7", "claude-sonnet-4", "claude-opus-4"}

ModelIds ==
    {"anthropic.claude-3-7-sonnet-20250219-v1:0",
     "us.anthropic.claude-opus-4-20250514-v1:0",
     "anthropic.claude-3-haiku-20240307-v1:0"}

\* name in model_id (substring test), tabulated for the ids of the model
Contains(id, name) ==
    \/ id = "anthropic.claude-3-7-sonnet-20250219-v1:0" /\ name = "claude-3-7"
    \/ id = "us.anthropic.claude-opus-4-20250514-v1:0" /\ name = "claude-opus-4"

\* resolve_budget without the except clause of line 197: the ValueError of
\* int() leaves the try block
resolve_budget_uncaught(effort) ==
    IF effort.kind = "list"
    THEN [raised |-> TRUE, budget |-> 0]
    ELSE LET named == effort.kind = "str" /\ effort.s \in LevelNames
             first == IF named THEN LevelBudget(effort.s) ELSE 0
         IN  IF first = 0 /\ effort.kind # "None" /\ ~named
             THEN IF effort.kind = "int"
                  THEN [raised |-> FALSE, budget |-> effort.n]
                  ELSE IF effort.s \in NumericStrings
                  THEN [raised |-> FALSE, budget |-> IntOfString(effort.s)]
                  ELSE [raised |-> TRUE, budget |-> 0]
             ELSE [raised |-> FALSE, budget |-> first]

\* lines 186-199: the budget the reasoning effort resolves to, 0 for None,
\* or the exception that leaves the try block
resolve_budget(effort) ==
    IF effort.kind = "list"
    THEN [raised |-> TRUE, budget |-> 0]     \* unhashable: TypeError in .get
    ELSE LET named == effort.kind = "str" /\ effort.s \in LevelNames
             first == IF named THEN LevelBudget(effort.s) ELSE 0
         IN  IF first = 0 /\ effort.kind # "None" /\ ~named
             THEN IF effort.kind = "int"
                  THEN [raised |-> FALSE, budget |-> effort.n]
                  ELSE IF effort.s \in NumericStrings
                  THEN [raised |-> FALSE, budget |-> IntOfString(effort.s)]
                  ELSE [raised |-> FALSE, budget |-> 0]   \* ValueError, caught
             ELSE [raised |-> FALSE, budget |-> first]

supports_thinking(id) == \E name \in get_thinking_supported_models : Contains(id, name)

\* ------------------------------------------------- pipe: message processing
MaxImagesPerMessage == 21   \* image items one message may carry
MaxMessages == 2            \* messages of one request

\* an item of a message's content list
TextItem == [type |-> "text", url |-> ""]
ImageItem(url) == [type |-> "image_url", url |-> url]

\* a message: content is a string (list = FALSE) or a list of items
PlainMessage == [list |-> FALSE, content |-> <<>>]
ListMessage(n, url) ==
    [list |-> TRUE, content |-> <<TextItem>> \o [i \in 1..n |-> ImageItem(url)]]

Messages ==
    {PlainMessage, ListMessage(1, "data"), ListMessage(1, "http"),
     ListMessage(MaxImagesPerMessage - 1, "data"),
     ListMessage(MaxImagesPerMessage, "data")}
MessageLists == UNION {[1..k -> Messages] : k \in 1..MaxMessages}

\* image items of a message list, over all its messages
ImagesIn(msgs) ==
    LET RECURSIVE count(_)
        count(i) ==
            IF i > Len(msgs) THEN 0
            ELSE Cardinality({j \in 1..Len(msgs[i].content) :
                                 msgs[i].content[j].type = "image_url"})
                 + count(i + 1)
    IN  count(1)

\* State of the loops of lines 153-170: image_count, the content built for the
\* message at hand, the images passed to process_image, those among them
\* fetched with requests.get, and the exception raised ("" for none).
LoopStart ==
    [image_count |-> 0, content |-> <<>>, processed_messages |-> <<>>,
     resolved |-> <<>>, fetched |-> <<>>, error |-> ""]

\* process_image on the image with this ordinal: a remote URL is fetched with
\* requests.get, inline data is decoded; either may raise (failAt names the
\* ordinal of the image whose resolution raises, 0 for none).
process_image(st, item, failAt) ==
    LET ord == st.image_count + 1
        st1 == [st EXCEPT !.resolved = Append(@, ord),
                          !.fetched = IF item.url = "http" THEN Append(@, ord) ELSE @]
    IN  IF failAt = ord
        THEN [st1 EXCEPT !.error = "image"]
        ELSE [st1 EXCEPT !.content = Append(@, [kind |-> "image", ord |-> ord]),
                         !.image_count = ord]

\* process_item with > for >= in the test of line 162
process_item_off_by_one(st, item, failAt) ==
    IF item.type = "text"
    THEN [st EXCEPT !.content = Append(@, [kind |-> "text", ord |-> 0])]
    ELSE IF item.type = "image_url"
    THEN IF st.image_count > MAX_IMAGES
         THEN [st EXCEPT !.error = "max_images"]
         ELSE process_image(st, item, failAt)
    ELSE st

\* lines 159-166 for one item
process_item(st, item, failAt) ==
    IF item.type = "text"
    THEN [st EXCEPT !.content = Append(@, [kind |-> "text", ord |-> 0])]
    ELSE IF item.type = "image_url"
    THEN IF st.image_count >= MAX_IMAGES
         THEN [st EXCEPT !.error = "max_images"]
         ELSE process_image(st, item, failAt)
    ELSE st

RECURSIVE process_items(_, _, _, _)
process_items(st, items, i, failAt) ==
    IF i > Len(items) \/ st.error # "" THEN st
    ELSE process_items(process_item(st, items[i], failAt), items, i + 1, failAt)

\* lines 155-170 for the messages from index i on
RECURSIVE process_messages(_, _, _, _)
process_messages(st, msgs, i, failAt) ==
    IF i > Len(msgs) \/ st.error # "" THEN st
    ELSE LET m == msgs[i]
             st1 == IF m.list
                    THEN process_items([st EXCEPT !.content = <<>>], m.content, 1, failAt)
                    ELSE [st EXCEPT !.content = <<[kind |-> "text", ord |-> 0]>>]
             st2 == IF st1.error # "" THEN st1
                    ELSE [st1 EXCEPT !.processed_messages = Append(@, st1.content)]
         IN  process_messages(st2, msgs, i + 1, failAt)

\* ------------------------------------------------------ pipe: the payload
\* lines 172-182
build_payload(id, b, processed) ==
    [modelId |-> id,
     messages |-> processed,
     system |-> "you are an intelligent ai assistant",
     inferenceConfig |->
         ("temperature" :> BodyGet(b.temperature, DEFAULT_TEMPERATURE))
         @@ ("topP" :> BodyGet(b.top_p, DEFAULT_TOP_P))
         @@ ("maxTokens" :> BodyGet(b.max_tokens, DEFAULT_MAX_TOKENS))
         @@ ("stopSequences" :> <<>>),
     additionalModelRequestFields |-> ("top_k" :> BodyGet(b.top_k, DEFAULT_TOP_K))]

\* line 203: max_tokens = payload.get("max_tokens", 4096), read from the
\* payload's top level
payload_max_tokens(p) == DictGet(p, "max_tokens", FALLBACK_MAX_TOKENS)

\* lines 211-221
thinking_payload(p, budget_tokens, combined_tokens) ==
    [p EXCEPT
        !.inferenceConfig =
            DictDel(("maxTokens" :> combined_tokens)
                    @@ ("temperature" :> THINKING_TEMPERATURE) @@ @, "topP"),
        !.additionalModelRequestFields =
            DictDel(("thinking" :> [type |-> "enabled", budget_tokens |-> budget_tokens])
                    @@ @, "top_k")]

NoPayload == [modelId |-> Unset]

\* lines 152-226 up to the call of stream_response or get_completion:
\* what pipe decides, the payload, and the images it touched
\*   decision "reject": pipe returns the error string of line 209
\*   decision "raise": an exception is raised inside the try block
\*   decision "stream" / "completion": the dispatch of lines 222-224
pipe_prepare(id, b, msgs, failAt) ==
    LET st == process_messages(LoopStart, msgs, 1, failAt)
        base == build_payload(id, b, st.processed_messages)
        r == resolve_budget(BodyGet(b.reasoning_effort, EffortStr("none")))
        max_tokens == payload_max_tokens(base)
        combined_tokens == r.budget + max_tokens
        done(decision, error, p) ==
            [decision |-> decision, error |-> error, payload |-> p,
             resolved |-> st.resolved, fetched |-> st.fetched]
    IN  IF st.error # "" THEN done("raise", st.error, NoPayload)
        ELSE IF ~BodyGet(b.stream, FALSE) THEN done("completion", "", base)
        ELSE IF r.raised THEN done("raise", "reasoning_effort", base)
        ELSE IF supports_thinking(id) /\ r.budget # 0
        THEN IF combined_tokens > MAX_COMBINED_TOKENS
             THEN done("reject", "combined_tokens", base)
             ELSE done("stream", "", thinking_payload(base, r.budget, combined_tokens))
        ELSE done("stream", "", base)

Result(kind, error) == [kind |-> kind, error |-> error]

\* An exception raised inside the try block of pipe (lines 152-226) is
\* turned into the string "Error: ..." by the except clause.
pipe_except(error) == [result |-> Result("error", error), escaped |-> ""]

\* pipe, the whole call. clientOk: whether converse answers or raises.
\* With stream set pipe only creates the generator: stream_response's body,
\* converse_stream included, runs when the consumer asks for the first item.
Pipe ==
    /\ pipe_pc = "ready"
    /\ \E failAt \in {0, 1, MAX_IMAGES}, clientOk \in BOOLEAN :
      \E d \in {pipe_prepare(model_id, body, messages, failAt)} :
        LET caught == pipe_except(d.error)
        IN  /\ pipe_pc' = "returned"
            /\ payload' = d.payload
            /\ resolved' = d.resolved
            /\ fetched' = d.fetched
            /\ CASE d.decision = "reject" ->
                    /\ result' = Result("error", d.error)
                    /\ UNCHANGED <<invoked, gen_pc, escaped>>
                 [] d.decision = "raise" ->
                    /\ result' = caught.result
                    /\ escaped' = caught.escaped
                    /\ UNCHANGED <<invoked, gen_pc>>
                 [] d.decision = "completion" ->
                    \* get_completion: self.bedrock_runtime.converse(**payload)
                    \* (an unset self.bedrock_runtime is an AttributeError)
                    /\ invoked' = IF bedrock_runtime = Unset THEN invoked
                                  ELSE Append(invoked, "converse")
                    /\ IF bedrock_runtime # Unset /\ clientOk
                       THEN result' = Result("text", "") /\ escaped' = ""
                       ELSE LET c == pipe_except(IF bedrock_runtime = Unset
                                                 THEN "attribute" ELSE "client")
                            IN  result' = c.result /\ escaped' = c.escaped
                    /\ UNCHANGED gen_pc
                 [] d.decision = "stream" ->
                    /\ result' = Result("generator", "")
                    /\ gen_pc' = "created"
                    /\ UNCHANGED <<invoked, escaped>>
    /\ UNCHANGED <<reqVars, in_resasoning_context, out, src, seen, flags, objVars, sessions>>

\* ------------------------------------------------- the generator, consumed
\* An exception raised in the generator's body reaches whoever called next().
gen_raise(error) == [gen_pc |-> "raised", escaped |-> error]

\* First next(): line 251, self.bedrock_runtime.converse_stream(**payload),
\* then line 253.
Open ==
    /\ gen_pc = "created"
    /\ \E clientOk \in BOOLEAN :
        /\ invoked' = IF bedrock_runtime = Unset THEN invoked
                      ELSE Append(invoked, "converse_stream")
        /\ IF bedrock_runtime # Unset /\ clientOk
           THEN gen_pc' = "iterating" /\ escaped' = escaped
           ELSE LET x == gen_raise(IF bedrock_runtime = Unset
                                   THEN "attribute" ELSE "client")
                IN  gen_pc' = x.gen_pc /\ escaped' = x.escaped
    /\ in_resasoning_context' = FALSE
    /\ UNCHANGED <<reqVars, pipe_pc, result, payload, resolved, fetched,
                   out, src, seen, flags, objVars, sessions>>

\* One turn of the for loop of line 254 with the next chunk of the stream.
Step ==
    /\ gen_pc = "iterating"
    /\ Len(seen) < MaxEvents
    /\ \E chunk \in Events :
        LET r == stream_chunk(in_resasoning_context, chunk)
            x == gen_raise("lookup")
        IN  /\ seen' = Append(seen, chunk)
            /\ IF r.raised
               THEN /\ gen_pc' = x.gen_pc
                    /\ escaped' = x.escaped
                    /\ flags' = Append(flags, in_resasoning_context)
                    /\ UNCHANGED <<in_resasoning_context, out, src>>
               ELSE /\ in_resasoning_context' = r.flag
                    /\ flags' = Append(flags, r.flag)
                    /\ out' = Emit(out, r.frags)
                    /\ src' = src \o [k \in 1..Len(r.frags) |-> Len(seen) + 1]
                    /\ UNCHANGED <<gen_pc, escaped>>
    /\ UNCHANGED <<reqVars, pipe_pc, result, payload, resolved, fetched, invoked,
                   objVars, sessions>>

\* The stream's iterator raises instead of giving a chunk (line 254).
StreamError ==
    /\ gen_pc = "iterating"
    /\ gen_pc' = gen_raise("client").gen_pc
    /\ escaped' = gen_raise("client").escaped
    /\ UNCHANGED <<reqVars, pipe_pc, result, payload, resolved, fetched, invoked,
                   in_resasoning_context, out, src, seen, flags, objVars, sessions>>

\* stream_end with a closing marker yielded for a region left open
stream_end_flush(flag) == IF flag THEN <<CloseMarker>> ELSE <<>>

\* What stream_response yields after the for loop: the function ends with
\* the loop (line 267 is its last statement).
stream_end(flag) == <<>>

\* The stream is exhausted: the for loop ends and the generator returns.
StreamEnd ==
    /\ gen_pc = "iterating"
    /\ gen_pc' = "done"
    /\ out' = Emit(out, stream_end(in_resasoning_context))
    /\ src' = src \o [k \in 1..Len(stream_end(in_resasoning_context)) |-> Len(seen) + 1]
    /\ UNCHANGED <<reqVars, pipeVars, in_resasoning_context, seen, flags, objVars, sessions>>

\* ------------------------------------ several generators on one object
MaxSessionEvents == 3   \* events each of the concurrent sessions receives

SessionIds == {1, 2}

\* what the streams of concurrent sessions carry
SessionEvents == {BlockStop, ReasoningDelta("a"), TextDelta("b")}

\* The frame of one generator: its position, its locals, what it yielded,
\* the events it received, the exception it ended with, and the sessions
\* that had ended when it was opened.
NoFrame ==
    [pc |-> "none", in_resasoning_context |-> FALSE, out |-> <<>>,
     seen |-> <<>>, escaped |-> "", after |-> {}]

\* frame_of when the flag is kept in one place for every generator
frame_shared(id) == 1

\* Where generator id keeps in_resasoning_context: the name is a local of
\* stream_response (line 253), so each generator has it in its own frame.
frame_of(id) == id

\* The first next() on generator id: converse_stream, then line 253.
SessionOpen ==
    /\ \E id \in SessionIds, clientOk \in BOOLEAN :
        /\ sessions[id].pc = "created"
        /\ invoked' = IF bedrock_runtime = Unset THEN invoked
                      ELSE Append(invoked, "converse_stream")
        /\ IF bedrock_runtime # Unset /\ clientOk
           THEN sessions' =
                    [[sessions EXCEPT
                        ![id].pc = "iterating",
                        ![id].after = {j \in SessionIds :
                                          sessions[j].pc \in {"done", "raised"}}]
                     EXCEPT ![frame_of(id)].in_resasoning_context = FALSE]
           ELSE LET x == gen_raise(IF bedrock_runtime = Unset
                                   THEN "attribute" ELSE "client")
                IN  sessions' = [sessions EXCEPT ![id].pc = x.gen_pc,
                                                 ![id].escaped = x.escaped]
    /\ UNCHANGED <<reqVars, pipe_pc, result, payload, resolved, fetched, escaped,
                   genVars, objVars>>

\* One turn of the for loop of generator id with the next chunk of its stream.
SessionStep ==
    /\ \E id \in SessionIds, chunk \in SessionEvents :
        LET f == sessions[id]
            r == stream_chunk(sessions[frame_of(id)].in_resasoning_context, chunk)
            x == gen_raise("lookup")
        IN  /\ f.pc = "iterating"
            /\ Len(f.seen) < MaxSessionEvents
            /\ sessions' =
                IF r.raised
                THEN [sessions EXCEPT ![id].seen = Append(f.seen, chunk),
                                      ![id].pc = x.gen_pc,
                                      ![id].escaped = x.escaped]
                ELSE [[sessions EXCEPT ![id].seen = Append(f.seen, chunk),
                                       ![id].out = Emit(f.out, r.frags)]
                      EXCEPT ![frame_of(id)].in_resasoning_context = r.flag]
    /\ UNCHANGED <<reqVars, pipeVars, genVars, objVars>>

\* The stream of generator id raises instead of giving a chunk.
SessionError ==
    /\ \E id \in SessionIds :
        /\ sessions[id].pc = "iterating"
        /\ sessions' = [sessions EXCEPT ![id].pc = gen_raise("client").gen_pc,
                                        ![id].escaped = gen_raise("client").escaped]
    /\ UNCHANGED <<reqVars, pipeVars, genVars, objVars>>

\* The stream of generator id is exhausted.
SessionEnd ==
    /\ \E id \in SessionIds :
        /\ sessions[id].pc = "iterating"
        /\ sessions' =
            [sessions EXCEPT
                ![id].pc = "done",
                ![id].out = Emit(sessions[id].out,
                                 stream_end(sessions[frame_of(id)].in_resasoning_context))]
    /\ UNCHANGED <<reqVars, pipeVars, genVars, objVars>>

\* --------------------------------------------------- the Pipeline object
MaxModels == 2          \* model summaries one catalog listing returns

Configs == {"valves-1", "valves-2", "valves-3"}

SetupPlaceholder ==
    <<[id |-> "error",
       name |-> "Could not fetch models from Bedrock, please set up AWS Key/Secret or Instance/Task Role."]>>
PermissionPlaceholder ==
    <<[id |-> "error",
       name |-> "Could not fetch models from Bedrock, please check permissoin."]>>

\* A model summary of list_foundation_models: its inference types, and what
\* getInferenceProfileId does for it: "found", "missing" (None) or "raise".
SummaryKinds ==
    {[types |-> t, profile |-> "missing"] :
        t \in {{}, {"ON_DEMAND"}, {"ON_DEMAND", "INFERENCE_PROFILE"}}}
    \cup {[types |-> {"INFERENCE_PROFILE"}, profile |-> q] :
            q \in {"found", "missing", "raise"}}
ModelNames == <<"m1", "m2", "m3", "m4", "m5">>
ProfileNames == <<"p1", "p2", "p3", "p4", "p5">>

\* What the catalog answers: the listing raises, or gives summaries.
Catalogs ==
    {[raises |-> TRUE, summaries |-> <<>>]}
    \cup {[raises |-> FALSE, summaries |-> x] :
            x \in UNION {[1..k -> SummaryKinds] : k \in 0..MaxModels}}
NotAsked == [raises |-> TRUE, summaries |-> <<>>]

\* how one refresh can go: a client cannot be made, or the catalog answers
Outcomes ==
    {[ok1 |-> FALSE, ok2 |-> FALSE, cat |-> NotAsked],
     [ok1 |-> TRUE, ok2 |-> FALSE, cat |-> NotAsked]}
    \cup {[ok1 |-> TRUE, ok2 |-> TRUE, cat |-> c] : c \in Catalogs}

\* lines 116-122 for the summaries from index i on; res is the list so far
RECURSIVE models_loop(_, _, _)
models_loop(res, summaries, i) ==
    IF i > Len(summaries) THEN [raised |-> FALSE, res |-> res]
    ELSE LET model == summaries[i]
         IN  IF "ON_DEMAND" \in model.types
             THEN models_loop(Append(res, [id |-> ModelNames[i], name |-> ModelNames[i]]),
                              summaries, i + 1)
             ELSE IF "INFERENCE_PROFILE" \in model.types
             THEN CASE model.profile = "raise" -> [raised |-> TRUE, res |-> res]
                    [] model.profile = "found" ->
                        models_loop(Append(res, [id |-> ProfileNames[i],
                                                 name |-> ModelNames[i]]),
                                    summaries, i + 1)
                    [] OTHER -> models_loop(res, summaries, i + 1)
             ELSE models_loop(res, summaries, i + 1)

\* get_models whose except clause returns the list built so far
get_models_except_partial(res) == res

\* get_models, lines 111-132: what the except clause returns when the listing
\* or a profile lookup raises
get_models_except(res) == PermissionPlaceholder

get_models(cat) ==
    IF cat.raises THEN get_models_except(<<>>)
    ELSE LET r == models_loop(<<>>, cat.summaries, 1)
         IN  IF r.raised THEN get_models_except(r.res) ELSE r.res

\* update_pipelines, lines 91-109, on the object obj with configuration v.
\* ok1, ok2: whether boto3.client gives the catalog client and the inference
\* client. The listing is asked only when both were made.
update_pipelines(obj, v, ok1, ok2, cat) ==
    IF ~ok1
    THEN [obj EXCEPT !.pipelines = SetupPlaceholder, !.catalog = NotAsked]
    ELSE IF ~ok2
    THEN [obj EXCEPT !.bedrock = v, !.pipelines = SetupPlaceholder,
                     !.catalog = NotAsked]
    ELSE [obj EXCEPT !.bedrock = v, !.bedrock_runtime = v,
                     !.pipelines = get_models(cat), !.catalog = cat]

Object == [bedrock |-> bedrock, bedrock_runtime |-> bedrock_runtime,
           pipelines |-> pipelines, catalog |-> catalog]

\* the object between __init__'s first lines and its call of update_pipelines
Blank == [bedrock |-> Unset, bedrock_runtime |-> Unset, pipelines |-> Unset,
          catalog |-> NotAsked]

\* Pipeline(): the valves come from the environment, then update_pipelines
Constructed ==
    {[valves |-> v, obj |-> update_pipelines(Blank, v, o.ok1, o.ok2, o.cat)] :
        v \in Configs, o \in Outcomes}

Refresh(v) ==
    \E how \in Outcomes :
        LET o == update_pipelines(Object, v, how.ok1, how.ok2, how.cat)
        IN  /\ valves' = v
            /\ bedrock' = o.bedrock
            /\ bedrock_runtime' = o.bedrock_runtime
            /\ pipelines' = o.pipelines
            /\ catalog' = o.catalog

\* on_startup: update_pipelines with the valves as they are
OnStartup ==
    /\ Refresh(valves)
    /\ UNCHANGED <<reqVars, pipeVars, genVars, sessions>>

\* on_valves_updated: the server has stored new valves, then update_pipelines
OnValvesUpdated ==
    /\ \E v \in Configs : Refresh(v)
    /\ UNCHANGED <<reqVars, pipeVars, genVars, sessions>>

\* ------------------------------------------------------- specifications
\* the sampling options of a request: none given, max_tokens alone, or all
Sampling ==
    {[max_tokens |-> Absent(0), temperature |-> Absent(0), top_p |-> Absent(0),
      top_k |-> Absent(0)],
     [max_tokens |-> Given(1000), temperature |-> Absent(0), top_p |-> Absent(0),
      top_k |-> Absent(0)],
     [max_tokens |-> Given(30000), temperature |-> Given(7), top_p |-> Given(8),
      top_k |-> Given(50)]}

Options ==
    {[stream |-> st, reasoning_effort |-> e, max_tokens |-> s.max_tokens,
      temperature |-> s.temperature, top_p |-> s.top_p, top_k |-> s.top_k] :
        st \in {Absent(FALSE), Given(TRUE)},
        e \in {Absent(EffortNone)} \cup {Given(x) : x \in Efforts},
        s \in Sampling}

PlainOptions ==
    {o \in Options : ~o.reasoning_effort.set /\ ~o.max_tokens.set}

InitCall ==
    /\ pipe_pc = "ready"
    /\ result = Result("none", "")
    /\ payload = NoPayload
    /\ resolved = <<>>
    /\ fetched = <<>>
    /\ invoked = <<>>
    /\ escaped = ""
    /\ gen_pc = "none"
    /\ in_resasoning_context = FALSE
    /\ out = <<>>
    /\ src = <<>>
    /\ seen = <<>>
    /\ flags = <<>>

\* the pipeline as constructed, when the refresh went one of these ways
InitObject(hows) ==
    \E how \in hows :
        LET o == update_pipelines(Blank, "valves-1", how.ok1, how.ok2, how.cat)
        IN  /\ valves = "valves-1"
            /\ bedrock = o.bedrock
            /\ bedrock_runtime = o.bedrock_runtime
            /\ pipelines = o.pipelines
            /\ catalog = o.catalog

Healthy == [ok1 |-> TRUE, ok2 |-> TRUE, cat |-> [raises |-> FALSE, summaries |-> <<>>]]
NoClients == [ok1 |-> FALSE, ok2 |-> FALSE, cat |-> NotAsked]

\* One call of pipe on a constructed pipeline, and the first item asked of
\* the generator it returned.
Init ==
    /\ model_id \in ModelIds
    /\ body \in Options
    /\ messages \in MessageLists
    /\ InitCall
    /\ sessions = [id \in SessionIds |-> NoFrame]
    /\ InitObject({Healthy})

Next == Pipe \/ Open

Spec == Init /\ [][Next]_vars

\* A streaming session: pipe on a plain request, then the generator consumed
\* to its end.
InitStream ==
    /\ model_id = "anthropic.claude-3-7-sonnet-20250219-v1:0"
    /\ body \in PlainOptions
    /\ messages = <<PlainMessage>>
    /\ InitCall
    /\ sessions = [id \in SessionIds |-> NoFrame]
    /\ InitObject({Healthy, NoClients})

NextStream == Pipe \/ Open \/ Step \/ StreamError \/ StreamEnd

SpecStream == InitStream /\ [][NextStream]_vars

\* Two streaming sessions on one pipeline: pipe has returned a generator to
\* each consumer, and the consumers advance them in any interleaving.
InitSessions ==
    /\ model_id = "anthropic.claude-3-7-sonnet-20250219-v1:0"
    /\ body \in {o \in PlainOptions : o.stream.set}
    /\ messages = <<PlainMessage>>
    /\ InitCall
    /\ InitObject({Healthy})
    /\ sessions = [id \in SessionIds |-> [NoFrame EXCEPT !.pc = "created"]]

NextSessions == SessionOpen \/ SessionStep \/ SessionError \/ SessionEnd

SpecSessions == InitSessions /\ [][NextSessions]_vars

\* The Pipeline object: construction, then on_startup and on_valves_updated.
InitRefresh ==
    /\ model_id \in {"anthropic.claude-3-haiku-20240307-v1:0"}
    /\ body \in {o \in PlainOptions : ~o.stream.set}
    /\ messages = <<PlainMessage>>
    /\ InitCall
    /\ sessions = [id \in SessionIds |-> NoFrame]
    /\ \E c \in Constructed :
        /\ valves = c.valves
        /\ bedrock = c.obj.bedrock
        /\ bedrock_runtime = c.obj.bedrock_runtime
        /\ pipelines = c.obj.pipelines
        /\ catalog = c.obj.catalog

NextRefresh == OnStartup \/ OnValvesUpdated

SpecRefresh == InitRefresh /\ [][NextRefresh]_vars

\* =================================================== the streaming session
\* Reading the history of a session: event i is seen[i], the flag before it
\* is FlagBefore(i), and the fragments it yielded are Yielded(i, i).
FlagBefore(i) == IF i = 1 THEN FALSE ELSE flags[i - 1]
Mark(i) == Cardinality({k \in 1..Len(src) : src[k] <= i})
Yielded(i, j) == SubSeq(out, Mark(i - 1) + 1, Mark(j))

IsStop(chunk) == "contentBlockStop" \in chunk.keys
HasDelta(chunk) == "contentBlockDelta" \in chunk.keys /\ "delta" \in chunk.cbdKeys
IsReasoning(chunk) == HasDelta(chunk) /\ "reasoningContent" \in chunk.deltaKeys
IsText(chunk) ==
    HasDelta(chunk) /\ "reasoningContent" \notin chunk.deltaKeys /\ "text" \in chunk.deltaKeys

Count(seq, x) == Cardinality({k \in 1..Len(seq) : seq[k] = x})
IsMarker(x) == x \in {OpenMarker, CloseMarker}
MarkerCount(seq) == Cardinality({k \in 1..Len(seq) : IsMarker(seq[k])})

\* the reasoning payloads of events i..j whose text field is present, in order
RECURSIVE ReasoningTexts(_, _)
ReasoningTexts(i, j) ==
    IF i > j THEN <<>>
    ELSE (IF IsReasoning(seen[i]) /\ "text" \in seen[i].rcKeys
          THEN <<seen[i].rcText>> ELSE <<>>) \o ReasoningTexts(i + 1, j)

\* the same, leaving out the empty payloads
RECURSIVE NonEmptyReasoningTexts(_, _)
NonEmptyReasoningTexts(i, j) ==
    IF i > j THEN <<>>
    ELSE (IF IsReasoning(seen[i]) /\ "text" \in seen[i].rcKeys /\ seen[i].rcText # ""
          THEN <<seen[i].rcText>> ELSE <<>>) \o NonEmptyReasoningTexts(i + 1, j)

\* events i..j are a run of reasoning deltas that starts outside a reasoning
\* region and is followed by a BlockStop
ClosedRun(i, j) ==
    /\ 1 <= i /\ i <= j /\ j + 1 <= Len(seen)
    /\ ~FlagBefore(i)
    /\ \A k \in i..j : IsReasoning(seen[k])
    /\ IsStop(seen[j + 1])

TextFollows(j) ==
    j + 2 <= Len(seen) /\ IsText(seen[j + 2]) => Yielded(j + 2, j + 2) = <<seen[j + 2].text>>

RECURSIVE TextPayloads(_, _)
TextPayloads(i, j) ==
    IF i > j THEN <<>>
    ELSE (IF IsText(seen[i]) THEN <<seen[i].text>> ELSE <<>>) \o TextPayloads(i + 1, j)

NoReasoningSeen == \A i \in 1..Len(seen) : ~IsReasoning(seen[i])

\* C4: when no event received is a reasoning delta, the fragments yielded are
\* exactly the text-delta payloads in arrival order and no marker is yielded.
C4_PlainText ==
    NoReasoningSeen =>
        /\ out = TextPayloads(1, Len(seen))
        /\ MarkerCount(out) = 0

C4_Witness ==
    /\ NoReasoningSeen
    /\ \E i, j, k \in 1..Len(seen) : IsStop(seen[i]) /\ IsText(seen[j]) /\ seen[k] = OtherEvent
    /\ out = <<"a", "b">>

\* C5 as claimed: whenever a text-delta payload is yielded the flag is false
\* (no text payload lies between an opening marker and its closing marker).
C5_AsClaimed ==
    \A i \in 1..Len(seen) : IsText(seen[i]) => ~FlagBefore(i) /\ ~flags[i]

\* opening markers minus closing markers
Balance(seq) == Count(seq, OpenMarker) - Count(seq, CloseMarker)

\* C6: after every prefix of the events, opening markers yielded minus closing
\* markers yielded is 0 or 1, and is 1 exactly when the flag is set; the same
\* difference is 0 or 1 after every fragment.

C6_Balance ==
    /\ \A k \in 0..Len(out) : Balance(SubSeq(out, 1, k)) \in {0, 1}
    /\ Len(flags) = Len(seen)
    /\ \A i \in 1..Len(seen) : (Balance(SubSeq(out, 1, Mark(i))) = 1) <=> flags[i]
    /\ (Balance(out) = 1) <=> in_resasoning_context

C6_Witness ==
    /\ Count(out, OpenMarker) = 2
    /\ Count(out, CloseMarker) = 1
    /\ in_resasoning_context
    /\ \E i \in 2..Len(seen) : IsReasoning(seen[i]) /\ IsReasoning(seen[i - 1])

\* events of none of the recognized shapes
Unrecognized == {OtherEvent, NoDeltaEvent, ToolUseDelta}
\* a reasoning delta without its text field
NoText(chunk) == IsReasoning(chunk) /\ "text" \notin chunk.rcKeys

Ignored(i) == Yielded(i, i) = <<>> /\ flags[i] = FlagBefore(i)

\* C8 as claimed: an unrecognized or malformed event, a delta missing its text
\* field included, never raises, yields nothing and leaves the flag as it was.
C8_AsClaimed ==
    /\ escaped # "lookup"
    /\ \A i \in 1..Len(seen) : seen[i] \in Unrecognized \/ NoText(seen[i]) => Ignored(i)

\* C8 (amended): no event makes stream_response raise. An event with none of
\* the recognized keys, a content-delta event with no delta and a delta of
\* neither kind yield nothing and leave the flag as it was, inside and
\* outside a reasoning region. A reasoning delta without its text field
\* yields no payload; outside a reasoning region it still yields the opening
\* marker and sets the flag, inside one it yields nothing and the flag stays.
C8_Malformed ==
    /\ escaped # "lookup"
    /\ \A i \in 1..Len(seen) :
        /\ seen[i] \in Unrecognized => Ignored(i)
        /\ NoText(seen[i]) /\ FlagBefore(i) => Ignored(i)
        /\ NoText(seen[i]) /\ ~FlagBefore(i) =>
              Yielded(i, i) = <<OpenMarker>> /\ flags[i]

C8_Witness ==
    /\ Len(seen) = 4
    /\ seen[1] = NoDeltaEvent /\ ~flags[1]
    /\ seen[2] = SignatureDelta /\ flags[2]
    /\ seen[3] = ToolUseDelta /\ flags[3]
    /\ seen[4] = SignatureDelta /\ flags[4]
    /\ out = <<OpenMarker>>

\* the payloads of events i..j, text and reasoning, in order
RECURSIVE AllPayloads(_, _)
AllPayloads(i, j) ==
    IF i > j THEN <<>>
    ELSE (IF IsReasoning(seen[i])
          THEN (IF "text" \in seen[i].rcKeys THEN <<seen[i].rcText>> ELSE <<>>)
          ELSE IF IsText(seen[i]) THEN <<seen[i].text>> ELSE <<>>)
         \o AllPayloads(i + 1, j)

RECURSIVE WithoutMarkers(_)
WithoutMarkers(seq) ==
    IF seq = <<>> THEN <<>>
    ELSE (IF IsMarker(Head(seq)) THEN <<>> ELSE <<Head(seq)>>) \o WithoutMarkers(Tail(seq))

\* C10: the fragments follow the order of the events: those of an event come
\* before those of any later event, and the output without the markers is the
\* sequence of the text and reasoning payloads received, in arrival order,
\* none dropped, duplicated or moved.
C10_Order ==
    /\ Len(src) = Len(out)
    /\ \A k \in 1..Len(src) - 1 : src[k] <= src[k + 1]
    /\ \A i \in 1..Len(seen) : WithoutMarkers(Yielded(i, i)) = AllPayloads(i, i)
    /\ WithoutMarkers(out) = AllPayloads(1, Len(seen))

C10_Witness ==
    /\ seen = <<TextDelta("c"), ReasoningDelta("b"), ReasoningDelta("a"), TextDelta("a")>>
    /\ out = <<"c", OpenMarker, "b", "a", "a">>

\* ========================================================= one call of pipe
RequestedMaxTokens == BodyGet(body.max_tokens, DEFAULT_MAX_TOKENS)
RequestedEffort == BodyGet(body.reasoning_effort, EffortStr("none"))
Streaming == BodyGet(body.stream, FALSE)

\* C1: a streaming request to a thinking-capable model whose reasoning budget
\* B and requested output limit M (max_tokens, 4096 when not given) add up to
\* more than 64000 gets an error result, and the inference client is never
\* called for it.
C1_AsClaimed ==
    /\ pipe_pc = "returned"
    /\ Streaming
    /\ supports_thinking(model_id)
    /\ ~resolve_budget(RequestedEffort).raised
    /\ resolve_budget(RequestedEffort).budget # 0
    /\ resolve_budget(RequestedEffort).budget + RequestedMaxTokens > MAX_COMBINED_TOKENS
    => result.kind = "error" /\ invoked = <<>> /\ gen_pc = "none"

\* C2: no exception raised by the inference client (by converse, by
\* converse_stream, or by the event stream while it is iterated) reaches the
\* caller of pipe or the consumer of the generator, and the client is not
\* called again after it raised.
C2_AsClaimed == escaped # "client" /\ Len(invoked) <= 1

UpTo(n) == [i \in 1..n |-> i]

\* C7 as claimed: a request with more than 20 image items over all its
\* messages gets an error string, nothing is raised, the inference client is
\* never called, and exactly the first 20 images are passed to process_image.
C7_AsClaimed ==
    pipe_pc = "returned" /\ ImagesIn(messages) > MAX_IMAGES =>
        /\ result.kind = "error"
        /\ escaped = ""
        /\ invoked = <<>> /\ gen_pc = "none"
        /\ resolved = UpTo(MAX_IMAGES)

\* C7 (amended): a request with more than 20 image items over all its
\* messages gets an error string, nothing is raised and the inference client
\* is never called. The images passed to process_image are the first 20, in
\* order, unless process_image raises on one of them: then they are the
\* images up to that one. No image past the 20th is passed to it.
C7_TooManyImages ==
    pipe_pc = "returned" /\ ImagesIn(messages) > MAX_IMAGES =>
        /\ result.kind = "error"
        /\ escaped = ""
        /\ invoked = <<>> /\ gen_pc = "none"
        /\ \/ result.error = "max_images" /\ resolved = UpTo(MAX_IMAGES)
           \/ /\ result.error = "image"
              /\ Len(resolved) <= MAX_IMAGES
              /\ resolved = UpTo(Len(resolved))

\* more than 20 images in all, no message with more than 20
C7_Witness ==
    /\ pipe_pc = "returned"
    /\ ImagesIn(messages) > MAX_IMAGES
    /\ \A i \in 1..Len(messages) : ImagesIn(<<messages[i]>>) <= MAX_IMAGES
    /\ result = Result("error", "max_images")
    /\ resolved = UpTo(MAX_IMAGES)

\* ====================================================== the Pipeline object
\* the model list a listing stands for: an entry for each on-demand model and
\* for each inference-profile model whose profile is found, in order
Listed(cat) ==
    LET n == Len(cat.summaries)
        Kept(i) ==
            \/ "ON_DEMAND" \in cat.summaries[i].types
            \/ "INFERENCE_PROFILE" \in cat.summaries[i].types
               /\ cat.summaries[i].profile = "found"
        Entry(i) ==
            [id |-> IF "ON_DEMAND" \in cat.summaries[i].types
                    THEN ModelNames[i] ELSE ProfileNames[i],
             name |-> ModelNames[i]]
        kept == SelectSeq([i \in 1..n |-> i], Kept)
    IN  [k \in 1..Len(kept) |-> Entry(kept[k])]

\* a listing that answers, with every profile lookup it needs answering too
Answers(cat) ==
    /\ ~cat.raises
    /\ \A i \in 1..Len(cat.summaries) :
         cat.summaries[i].types = {"INFERENCE_PROFILE"} => cat.summaries[i].profile # "raise"

IsPlaceholder(list) == Len(list) = 1 /\ list[1].id = "error"

\* C9: after construction and after every on_startup and on_valves_updated,
\* whatever failed, nothing was raised and the model list is either the list
\* the catalog's answer stands for or one placeholder entry with id "error";
\* it is never unset and never a part of a list.
C9_ModelList ==
    /\ escaped = ""
    /\ pipelines # Unset
    /\ IF bedrock = valves /\ bedrock_runtime = valves /\ Answers(catalog)
       THEN pipelines = Listed(catalog)
       ELSE IsPlaceholder(pipelines)

\* a profile lookup raised after an on-demand model had been listed
C9_Witness ==
    /\ Len(catalog.summaries) = 2
    /\ catalog.summaries[1].types = {"ON_DEMAND"}
    /\ catalog.summaries[2] = [types |-> {"INFERENCE_PROFILE"}, profile |-> "raise"]
    /\ pipelines = PermissionPlaceholder

\* ------------------------------------------- the streaming session, further
\* a reasoning delta whose text is the empty string
EmptyText(chunk) == IsReasoning(chunk) /\ "text" \in chunk.rcKeys /\ chunk.rcText = ""

\* what a reasoning delta yields ahead of its payload
Opening(i) == IF FlagBefore(i) THEN <<>> ELSE <<OpenMarker>>

C12_Transitions ==
    /\ gen_pc \in {"none", "created"} \/ seen = <<>> => ~in_resasoning_context
    /\ seen # <<>> => in_resasoning_context = flags[Len(seen)]
    /\ \A i \in 1..Len(seen) :
        /\ ~FlagBefore(i) /\ IsReasoning(seen[i]) => flags[i]
        /\ FlagBefore(i) /\ IsStop(seen[i]) =>
              ~flags[i] /\ Yielded(i, i) = <<CloseMarker>>
        /\ ~(~FlagBefore(i) /\ IsReasoning(seen[i])) /\ ~(FlagBefore(i) /\ IsStop(seen[i]))
              => flags[i] = FlagBefore(i)
        /\ ~FlagBefore(i) /\ IsStop(seen[i]) => Yielded(i, i) = <<>>

C12_Witness ==
    /\ seen = <<BlockStop, ReasoningDelta("a"), TextDelta("b"), BlockStop>>
    /\ flags = <<FALSE, TRUE, TRUE, FALSE>>
    /\ out = <<OpenMarker, "a", "b", CloseMarker>>

\* the last marker yielded is an opening marker
EndsOpen ==
    \E k \in 1..Len(out) :
        out[k] = OpenMarker /\ \A j \in (k + 1)..Len(out) : ~IsMarker(out[j])

\* C13: there is no flush at the end of the stream: whenever the events are
\* exhausted the generator can end, and it ends without yielding anything
\* after the last event; if the flag is set then, no closing marker follows
\* and the output is left with one unmatched opening marker.
C13_NoFlush ==
    /\ gen_pc = "iterating" => ENABLED StreamEnd
    /\ gen_pc = "done" => Len(out) = Mark(Len(seen))
    /\ gen_pc = "done" /\ in_resasoning_context => Balance(out) = 1 /\ EndsOpen

C13_Witness ==
    /\ gen_pc = "done"
    /\ seen = <<TextDelta("c"), ReasoningDelta("a"), ReasoningDelta("b")>>
    /\ in_resasoning_context
    /\ out = <<"c", OpenMarker, "a", "b">>

\* the flag and the output of a session that runs alone on these events
RECURSIVE alone(_)
alone(events) ==
    IF events = <<>>
    THEN [flag |-> FALSE, out |-> <<>>, raised |-> FALSE]
    ELSE LET p == alone(SubSeq(events, 1, Len(events) - 1))
             r == stream_chunk(p.flag, events[Len(events)])
         IN  IF p.raised \/ r.raised
             THEN [p EXCEPT !.raised = TRUE]
             ELSE [flag |-> r.flag, out |-> p.out \o r.frags, raised |-> FALSE]

\* C14: the flag is private to a session: with two sessions on one pipeline
\* advanced in any interleaving, each session's output is the output of a
\* session that receives the same events alone, its flag is what its own
\* events made it, and a session starts Outside even when another session
\* has ended Inside.
C14_Private ==
    \A id \in SessionIds :
        LET f == sessions[id]
        IN  /\ f.out = alone(f.seen).out
            /\ f.pc \in {"iterating", "done"} =>
                    f.in_resasoning_context = alone(f.seen).flag
            /\ f.pc = "iterating" /\ f.seen = <<>> => ~f.in_resasoning_context

C14_Witness ==
    /\ sessions[1].pc = "done"
    /\ sessions[1].seen = <<ReasoningDelta("a")>>
    /\ sessions[1].in_resasoning_context
    /\ 1 \in sessions[2].after
    /\ sessions[2].seen = <<TextDelta("b"), BlockStop>>
    /\ sessions[2].out = <<"b">>

\* C15 as claimed: a request with more than 20 image items is rejected before
\* any network call: when pipe has returned, no image was fetched with
\* requests.get and the inference client was not called.
C15_AsClaimed ==
    pipe_pc = "returned" /\ ImagesIn(messages) > MAX_IMAGES =>
        fetched = <<>> /\ invoked = <<>>

\* C16 as claimed: after any refresh (construction, on_startup,
\* on_valves_updated), failed part-way or not, the catalog client and the
\* inference client the pipeline holds were made from the same
\* configuration: never one from the new configuration with the other stale
\* or unset.
C16_AsClaimed == bedrock = bedrock_runtime

\* ================================================== pipe: reasoning requests
\* pipe went as far as its dispatch: it returned the generator or called
\* converse
Dispatched == pipe_pc = "returned" /\ (result.kind = "generator" \/ invoked # <<>>)

\* the payload built carries a thinking field
Thinking ==
    /\ payload # NoPayload
    /\ "thinking" \in DOMAIN payload.additionalModelRequestFields

\* the reasoning effort is a named level other than "none", or a string or an
\* integer that reads as a non-zero integer
NonZeroBudget(e) ==
    \/ e.kind = "str" /\ e.s \in LevelNames /\ e.s # "none"
    \/ e.kind = "str" /\ e.s \in NumericStrings /\ IntOfString(e.s) # 0
    \/ e.kind = "int" /\ e.n # 0

\* a string that is neither a level name nor a number
UnparsableString(e) == e.kind = "str" /\ e.s \notin LevelNames \cup NumericStrings

\* a reasoning effort that is neither a level, nor a number, nor None
Unparsable(e) == UnparsableString(e) \/ e.kind = "list"

\* pipe returned an error because of an image of the request
ImageError == result.kind = "error" /\ result.error \in {"image", "max_images"}

Enabled == Streaming /\ supports_thinking(model_id) /\ NonZeroBudget(RequestedEffort)

\* C17 as claimed: a dispatched request carries a thinking field exactly
\* when it is streaming, to a thinking-capable model, with an effort of
\* non-zero budget; and a request with an unparsable reasoning effort is
\* dispatched, without a thinking field, rather than rejected.
C17_AsClaimed ==
    /\ Dispatched => (Thinking <=> Enabled)
    /\ pipe_pc = "returned" /\ Unparsable(RequestedEffort) /\ ~ImageError =>
            Dispatched /\ ~Thinking

\* C17 (amended): a dispatched request carries a thinking field exactly
\* when it is streaming, to a thinking-capable model, with an effort of
\* non-zero budget, so a non-streaming request never does; a string that is
\* neither a level nor a number disables reasoning and the request is
\* dispatched; a reasoning effort that cannot be looked up in the level
\* table (a list) is never read by a non-streaming request, and makes pipe
\* return an error string, the client not called, for a streaming one.
C17_Reasoning ==
    /\ Dispatched => (Thinking <=> Enabled)
    /\ Dispatched /\ ~Streaming => ~Thinking
    /\ pipe_pc = "returned" /\ UnparsableString(RequestedEffort) /\ ~ImageError =>
            Dispatched /\ ~Thinking
    /\ pipe_pc = "returned" /\ RequestedEffort.kind = "list" /\ ~ImageError =>
            IF Streaming
            THEN result = Result("error", "reasoning_effort")
                 /\ invoked = <<>> /\ gen_pc = "none" /\ escaped = ""
            ELSE Dispatched /\ ~Thinking

\* an unparsable string on a streaming request to a thinking-capable model:
\* converse_stream is called with a payload without thinking
C17_Witness ==
    /\ Streaming
    /\ supports_thinking(model_id)
    /\ RequestedEffort = EffortStr("abc")
    /\ result = Result("generator", "")
    /\ invoked = <<"converse_stream">>
    /\ ~Thinking

\* C18 as claimed: when reasoning is enabled with budget B and B plus the
\* requested output limit M (max_tokens, 4096 when not given) is at most
\* 64000, the payload dispatched has maxTokens B + M, thinking budget B,
\* temperature 1.0 and neither topP nor top_k; a payload dispatched without
\* reasoning has the request's own maxTokens, temperature, topP and top_k,
\* or their defaults.
C18_AsClaimed ==
    LET B == resolve_budget(RequestedEffort).budget
        M == RequestedMaxTokens
    IN  /\ Dispatched /\ Thinking /\ B + M <= MAX_COMBINED_TOKENS =>
            /\ payload.inferenceConfig["maxTokens"] = B + M
            /\ payload.additionalModelRequestFields["thinking"].budget_tokens = B
            /\ payload.inferenceConfig["temperature"] = THINKING_TEMPERATURE
            /\ "topP" \notin DOMAIN payload.inferenceConfig
            /\ "top_k" \notin DOMAIN payload.additionalModelRequestFields
        /\ pipe_pc = "returned" /\ Enabled /\ B + M <= MAX_COMBINED_TOKENS
                /\ ~ImageError => Dispatched /\ Thinking
        /\ Dispatched /\ ~Thinking =>
            /\ payload.inferenceConfig["maxTokens"] = M
            /\ payload.inferenceConfig["temperature"]
                    = BodyGet(body.temperature, DEFAULT_TEMPERATURE)
            /\ payload.inferenceConfig["topP"] = BodyGet(body.top_p, DEFAULT_TOP_P)
            /\ payload.additionalModelRequestFields["top_k"]
                    = BodyGet(body.top_k, DEFAULT_TOP_K)

====
